---- MODULE Spec2Model ----
(***************************************************************************)
(* Model of src/homunculus_daemon.py: the AutoSync polling loop            *)
(* (run_autosync_daemon), the per-file downloader (_safe_download), the    *)
(* publisher (_git_push_auto) and the process entry point.                 *)
(*                                                                         *)
(* Text is a sequence of one-character strings; a URL is a sequence of     *)
(* tokens in which every "/" and "?" separator and every "%2F" escape is a *)
(* token of its own and every other token is one whole host name or path   *)
(* segment, so that the substring operations of the code (in, split,       *)
(* replace) are pattern operations on the token sequence.                  *)
(***************************************************************************)
EXTENDS Integers, Sequences, FiniteSets, TLC

\* Longest changed-file list a fetched commit record carries.
MaxFiles == 2

(***************************************************************************)
(* Values                                                                  *)
(***************************************************************************)
\* Python's None (commit.get("sha") of a record without hash, prev without file).
None == <<"None">>
\* A dict key that is absent: f["raw_url"] raises KeyError.
MissingKey == <<"KeyError">>
\* COMMIT_FILE.exists() is false.
NoFile == <<"NoFile">>
\* No commit record is bound to the local variable.
NoCommit == [sha |-> <<"NoCommit">>, files |-> <<>>]
\* No head was fetched in the previous cycle.
NoFetch == <<"NoFetch">>
\* Working-tree entry: no file at the path.
Absent == <<"Absent">>
\* No Syncing cycle was terminated since the last fetched head.
NoKill == [sha |-> <<"NoKill">>, file |-> <<"NoKill">>]
\* parts = raw_url.split("github.com/")[1] on a one-element list.
IndexError == <<"IndexError">>

Whitespace == {" ", "\n"}

RECURSIVE lstrip(_)
lstrip(s) == IF s # <<>> /\ Head(s) \in Whitespace THEN lstrip(Tail(s)) ELSE s

RECURSIVE rstrip(_)
rstrip(s) ==
    IF s # <<>> /\ s[Len(s)] \in Whitespace
    THEN rstrip(SubSeq(s, 1, Len(s) - 1))
    ELSE s

\* str.strip() of line 105.
strip(s) == rstrip(lstrip(s))

(***************************************************************************)
(* _safe_download's location rewriting, lines 62-66                        *)
(***************************************************************************)
\* "github.com" in raw_url
HasGithub(u) == \E i \in 1..Len(u) : u[i] = "github.com"

\* Index of the first "github.com" token followed by "/" at or after i; 0 if none.
RECURSIVE FindSplit(_, _)
FindSplit(u, i) ==
    IF i + 1 > Len(u) THEN 0
    ELSE IF u[i] = "github.com" /\ u[i + 1] = "/" THEN i
    ELSE FindSplit(u, i + 1)

\* raw_url.split("github.com/")[1]
SplitSecond(u) ==
    LET i == FindSplit(u, 1) IN
    IF i = 0 THEN IndexError
    ELSE LET j == FindSplit(u, i + 2) IN
         SubSeq(u, i + 2, IF j = 0 THEN Len(u) ELSE j - 1)

\* s.replace("/seg/", "/"): left to right, matches do not overlap.
RECURSIVE ReplaceSeg(_, _)
ReplaceSeg(s, seg) ==
    IF s = <<>> THEN <<>>
    ELSE IF Len(s) >= 3 /\ s[1] = "/" /\ s[2] = seg /\ s[3] = "/"
    THEN <<"/">> \o ReplaceSeg(SubSeq(s, 4, Len(s)), seg)
    ELSE <<Head(s)>> \o ReplaceSeg(Tail(s), seg)

\* s.split("?")[0]
RECURSIVE BeforeQuery(_)
BeforeQuery(s) ==
    IF s = <<>> \/ Head(s) = "?" THEN <<>>
    ELSE <<Head(s)>> \o BeforeQuery(Tail(s))

\* s.replace("%2F", "/")
RECURSIVE DecodeSlash(_)
DecodeSlash(s) ==
    IF s = <<>> THEN <<>>
    ELSE <<IF Head(s) = "%2F" THEN "/" ELSE Head(s)>> \o DecodeSlash(Tail(s))

RawHost == <<"https:", "/", "/", "raw.githubusercontent.com", "/">>

\* The URL handed to urlretrieve for raw_url, or IndexError.
ResolveUrl(raw_url) ==
    IF HasGithub(raw_url)
    THEN LET parts == SplitSecond(raw_url) IN
         IF parts = IndexError THEN IndexError
         ELSE RawHost \o
              DecodeSlash(BeforeQuery(ReplaceSeg(ReplaceSeg(parts, "blob"), "raw")))
    ELSE raw_url

(***************************************************************************)
(* Inputs: what the remote API and the disk may hold                       *)
(***************************************************************************)
Hashes == {<<"a">>, <<"b">>}
\* commit.get("sha"): a hash, or None when the record carries none.
FetchedShas == Hashes \cup {None}
\* COMMIT_FILE at process start: absent, or a hash a person or an earlier
\* run left there, possibly followed by a newline.
InitStateFiles == {NoFile, <<"a">>, <<"a", "\n">>}

Filenames == {"f1", "d/f2"}
UrlBlob == <<"https:", "/", "/", "github.com", "/", "o", "/", "r", "/", "blob", "/", "m", "/", "f1">>
UrlPlain == <<"https:", "/", "/", "example.com", "/", "f2">>

\* Longest path (in tokens) of a location handed to _safe_download alone.
MaxPath == 3

\* A viewer URL of the web front end: github.com/o/r/<kind>/m/<path>[?query].
ViewerUrl(kind, path, query) ==
    <<"https:", "/", "/", "github.com", "/", "o", "/", "r", "/", kind, "/", "m", "/">>
        \o path \o query
ViewerKinds == {"blob", "raw"}
\* Path tokens: a plain segment, segments named like the viewer's, the
\* escaped and the plain separator.
PathTokens == {"p", "blob", "raw", "%2F", "/"}
Paths == UNION { [1..n -> PathTokens] : n \in 1..MaxPath }
Queries == {<<>>, <<"?", "q">>}
ViewerUrls == { ViewerUrl(k, p, q) : k \in ViewerKinds, p \in Paths, q \in Queries }

\* Any other location: a host and whatever follows it.
Hosts == {"github.com", "example.com"}
Tails == UNION { [1..n -> PathTokens \cup {"?"}] : n \in 0..MaxPath }
HostUrl(host, tail) == <<"https:", "/", "/", host>> \o tail
HostUrls == { HostUrl(h, t) : h \in Hosts, t \in Tails }

\* The values of the raw_url argument of _safe_download (line 57).
UrlInputs == ViewerUrls \cup HostUrls

\* The locations the descriptors carry, and what lines 62-66 make of each.
Urls == {UrlBlob, UrlPlain}
Requested == [u \in Urls \cup UrlInputs |-> ResolveUrl(u)]

\* ChangedFileDescriptor dicts of the commit record's "files" list.
Descriptors ==
    { [filename |-> "f1",   status |-> "added",    raw_url |-> UrlBlob],
      [filename |-> "d/f2", status |-> "modified", raw_url |-> UrlPlain],
      [filename |-> "f1",   status |-> "removed",  raw_url |-> UrlBlob],
      [filename |-> "d/f2", status |-> "renamed",  raw_url |-> UrlPlain],
      [filename |-> "f1",   status |-> "added",    raw_url |-> MissingKey],
      [filename |-> "d/f2", status |-> "modified", raw_url |-> None] }

FileLists == UNION { [1..n -> Descriptors] : n \in 0..MaxFiles }

\* CommitRecord returned by _fetch_commit (json.load of the API response).
Commits == [sha : FetchedShas, files : FileLists]

\* The argv lists of cmds, lines 79-86, by what each runs.
cmds == <<"config_email", "config_name", "pull", "add", "commit", "push">>

VARIABLES
    pc,           \* position of the process in run_autosync_daemon
    AUTO_PUSH,    \* line 37, fixed at import
    COMMIT_FILE,  \* contents of data/runtime_commit_id, or NoFile
    tree,         \* working tree under PROJECT_ROOT: filename -> content
    commit,       \* local variable commit (line 103)
    idx,          \* position of the for loop of line 111 in files
    step,         \* position of the for loop of line 87 in cmds
    attempts,     \* history: the _safe_download calls of this cycle
    gitLog,       \* history: the cmds handed to subprocess.run this cycle
    pushErr,      \* history: did a subprocess.run of this cycle raise
    cyc,          \* history: what this cycle did so far
    err,          \* history: where the exception caught at line 122 arose
    lastSha,      \* history: the hash the previous cycle fetched
    killed        \* history: the Syncing cycle that was terminated midway

vars == <<pc, AUTO_PUSH, COMMIT_FILE, tree, commit, idx, step,
          attempts, gitLog, pushErr, cyc, err, lastSha, killed>>

NewCycle == [fetch |-> "none", branch |-> "none", writes |-> 0, start |-> COMMIT_FILE,
             resumed |-> FALSE]

Init ==
    /\ pc = "Idle"
    /\ AUTO_PUSH \in BOOLEAN
    /\ COMMIT_FILE \in InitStateFiles
    /\ tree = [f \in Filenames |-> Absent]
    /\ commit = NoCommit
    /\ idx = 0
    /\ step = 0
    /\ attempts = <<>>
    /\ gitLog = <<>>
    /\ pushErr = "none"
    /\ cyc = NewCycle
    /\ err = "none"
    /\ lastSha = NoFetch
    /\ killed = NoKill

disk == <<COMMIT_FILE, tree>>
config == <<AUTO_PUSH>>
history == <<attempts, gitLog, pushErr, cyc, err, lastSha, killed>>

(***************************************************************************)
(* run_autosync_daemon                                                     *)
(***************************************************************************)
\* The exception leaves the loop and ends the process.
Caught_propagates(where) ==
    /\ pc' = "Crashed"
    /\ err' = where

\* except Exception (lines 122-124), then the sleep of line 126.
Caught(where) ==
    /\ pc' = "Sleeping"
    /\ err' = where

\* Line 98: the banner, then the first iteration of while True.
Start ==
    /\ pc = "Idle"
    /\ pc' = "Fetching"
    /\ UNCHANGED <<disk, config, commit, idx, step, history>>

\* The failure of the fetch is swallowed and the cycle goes on with an empty
\* record.
FetchFail_swallowed ==
    /\ pc = "Fetching"
    /\ commit' = [sha |-> None, files |-> <<>>]
    /\ pc' = "Fetched"
    /\ cyc' = [cyc EXCEPT !.fetch = "failed"]
    /\ UNCHANGED <<disk, config, idx, step, attempts, gitLog, pushErr, err, lastSha, killed>>

\* _fetch_commit raises (timeout, HTTP error, bad JSON): line 103 to line 122.
FetchFail ==
    /\ pc = "Fetching"
    /\ Caught("fetch")
    /\ cyc' = [cyc EXCEPT !.fetch = "failed"]
    /\ UNCHANGED <<disk, config, commit, idx, step, attempts, gitLog, pushErr, lastSha, killed>>

\* The files the head record c names.  The API answers with the head commit
\* alone (line 52, /commits/{BRANCH}): what earlier commits changed is in no
\* record the process ever holds.
Listed(c) == {c.files[i].filename : i \in 1..Len(c.files)}

\* _fetch_commit returns the head record (lines 51-55, 103).
FetchOk ==
    /\ pc = "Fetching"
    /\ \E c \in Commits :
          /\ commit' = c
          /\ cyc' = [cyc EXCEPT !.fetch = "ok",
                                !.resumed = (killed # NoKill /\ killed.sha = c.sha)]
    /\ pc' = "Fetched"
    /\ killed' = NoKill
    /\ UNCHANGED <<disk, config, idx, step, attempts, gitLog, pushErr, err, lastSha>>

\* prev without the strip().
ReadPrev_unstripped == IF COMMIT_FILE = NoFile THEN None ELSE COMMIT_FILE

\* Line 105: prev.
ReadPrev == IF COMMIT_FILE = NoFile THEN None ELSE strip(COMMIT_FILE)

\* Lines 104-107 and 110: sha, prev, the comparison, files.
Classify ==
    /\ pc = "Fetched"
    /\ \/ /\ COMMIT_FILE # NoFile          \* read_text raises
          /\ Caught("read")
          /\ UNCHANGED <<idx, cyc>>
       \/ /\ commit.sha = ReadPrev
          /\ pc' = "Unchanged"
          /\ cyc' = [cyc EXCEPT !.branch = "Unchanged"]
          /\ UNCHANGED <<idx, err>>
       \/ /\ commit.sha # ReadPrev
          /\ pc' = "Syncing"
          /\ idx' = 1
          /\ cyc' = [cyc EXCEPT !.branch = "Syncing"]
          /\ UNCHANGED err
    /\ UNCHANGED <<disk, config, commit, step, attempts, gitLog, pushErr, lastSha, killed>>

\* The equal-hash branch writes the state file too.
Unchanged_rewrites ==
    /\ pc = "Unchanged"
    /\ commit.sha # None
    /\ COMMIT_FILE' = commit.sha
    /\ cyc' = [cyc EXCEPT !.writes = @ + 1]
    /\ pc' = "Sleeping"
    /\ UNCHANGED <<tree, config, commit, idx, step, attempts, gitLog, pushErr, err, lastSha, killed>>

\* Line 108: sha[:8] raises TypeError when sha is None.
Unchanged ==
    /\ pc = "Unchanged"
    /\ IF commit.sha = None
       THEN Caught("log")
       ELSE pc' = "Sleeping" /\ UNCHANGED err
    /\ UNCHANGED <<disk, config, commit, idx, step, attempts, gitLog, pushErr, cyc, lastSha, killed>>

\* _safe_download that requests raw_url as given, without lines 62-66.
safe_download_verbatim(raw_url, dest) ==
    \/ /\ attempts' = Append(attempts, [i |-> idx, dest |-> dest, url |-> raw_url, res |-> "failed"])
       /\ UNCHANGED <<tree, pc, err>>
       /\ idx' = idx + 1
    \/ /\ raw_url # None
       /\ attempts' = Append(attempts, [i |-> idx, dest |-> dest, url |-> raw_url, res |-> "ok"])
       /\ tree' = [tree EXCEPT ![dest] = raw_url]
       /\ UNCHANGED <<pc, err>>
       /\ idx' = idx + 1

\* _safe_download(raw_url, dest), lines 57-70, called at position idx of the
\* loop of line 111.  The content a transfer stores is named by the URL it
\* was requested from.
safe_download(raw_url, dest) ==
    LET url == IF raw_url = None THEN None ELSE Requested[raw_url]
        call(res) == Append(attempts, [i |-> idx, dest |-> dest, url |-> url, res |-> res])
    IN
    \/ \* line 59 raises (the parent is a file, no permission): outside the try
       /\ attempts' = call("mkdir")
       /\ Caught("files")
       /\ UNCHANGED <<tree, idx>>
    \/ \* lines 62-68 raise before dest is opened: TypeError on None, IndexError
       \* of the split, or the request fails (refused, timeout, HTTP error
       \* status); caught at line 69
       /\ attempts' = call("failed")
       /\ UNCHANGED <<tree, pc, err>>
       /\ idx' = idx + 1
    \/ \* urlretrieve completes
       /\ url \notin {None, IndexError}
       /\ attempts' = call("ok")
       /\ tree' = [tree EXCEPT ![dest] = url]
       /\ UNCHANGED <<pc, err>>
       /\ idx' = idx + 1

\* Everything that is not a removal is downloaded.
Wanted_notRemoved(f) == f.status # "removed"

\* Line 112.
Wanted(f) == f.status \in {"added", "modified"}

\* The loop downloads a file of the working tree whether or not the head
\* record names it.
SyncFile_wholeTree ==
    /\ pc = "Syncing"
    /\ idx <= Len(commit.files)
    /\ \E f \in Filenames :
          /\ attempts' = Append(attempts, [i |-> idx, dest |-> f, url |-> UrlPlain, res |-> "ok"])
          /\ tree' = [tree EXCEPT ![f] = UrlPlain]
    /\ idx' = idx + 1
    /\ UNCHANGED <<pc, err, COMMIT_FILE, config, commit, step, gitLog, pushErr, cyc, lastSha, killed>>

\* One iteration of the loop of lines 111-115.
SyncFile ==
    /\ pc = "Syncing"
    /\ idx <= Len(commit.files)
    /\ LET f == commit.files[idx] IN
       IF Wanted(f)
       THEN IF f.raw_url = MissingKey
            THEN \* f["raw_url"] raises KeyError at line 114, before the call
                 /\ Caught("files")
                 /\ UNCHANGED <<tree, idx, attempts>>
            ELSE safe_download(f.raw_url, f.filename)
       ELSE /\ idx' = idx + 1
            /\ UNCHANGED <<tree, attempts, pc, err>>
    /\ UNCHANGED <<COMMIT_FILE, config, commit, step, gitLog, pushErr, cyc, lastSha, killed>>

\* The publisher is called whatever AUTO_PUSH says.
Persist_alwaysPush ==
    /\ pc = "Syncing"
    /\ idx > Len(commit.files)
    /\ commit.sha # None
    /\ COMMIT_FILE' = commit.sha
    /\ cyc' = [cyc EXCEPT !.writes = @ + 1]
    /\ pc' = "Publishing"
    /\ step' = 1
    /\ UNCHANGED <<tree, config, commit, idx, attempts, gitLog, pushErr, err, lastSha, killed>>

\* write_text(sha) inside the loop of line 111: the hash is written after
\* the first iteration and the cycle ends there.
Persist_inLoop ==
    /\ pc = "Syncing"
    /\ idx > 1
    /\ commit.sha # None
    /\ COMMIT_FILE' = commit.sha
    /\ cyc' = [cyc EXCEPT !.writes = @ + 1]
    /\ pc' = "Sleeping"
    /\ UNCHANGED <<tree, config, commit, idx, step, attempts, gitLog, pushErr, err, lastSha, killed>>

\* write_text(repr(sha)): the hash is written between quotes.
Persist_writesRepr ==
    /\ pc = "Syncing"
    /\ idx > Len(commit.files)
    /\ commit.sha # None
    /\ COMMIT_FILE' = <<"'">> \o commit.sha \o <<"'">>
    /\ cyc' = [cyc EXCEPT !.writes = @ + 1]
    /\ pc' = "Sleeping"
    /\ UNCHANGED <<tree, config, commit, idx, step, attempts, gitLog, pushErr, err, lastSha, killed>>

\* Lines 116-120, after the loop: write_text(sha), then the push flag.
Persist ==
    /\ pc = "Syncing"
    /\ idx > Len(commit.files)
    /\ \/ \* write_text raises: TypeError when sha is None (before the file
          \* is opened), or the file cannot be opened for writing
          /\ Caught("persist")
          /\ UNCHANGED <<COMMIT_FILE, cyc, step>>
       \/ /\ commit.sha # None
          /\ COMMIT_FILE' = commit.sha
          /\ cyc' = [cyc EXCEPT !.writes = @ + 1]
          /\ IF AUTO_PUSH
             THEN pc' = "Publishing" /\ step' = 1
             ELSE pc' = "Sleeping" /\ step' = step
          /\ UNCHANGED err
    /\ UNCHANGED <<tree, config, commit, idx, attempts, gitLog, pushErr, lastSha, killed>>

(***************************************************************************)
(* _git_push_auto                                                          *)
(***************************************************************************)
\* One iteration of the loop of lines 87-88; after the last one, line 89 and
\* the return to line 126.
PushStep ==
    /\ pc = "Publishing"
    /\ step <= Len(cmds)
    /\ gitLog' = Append(gitLog, cmds[step])
    /\ \/ \* the client ran and exited; check=False and the result is dropped,
          \* so a non-zero exit status leaves no trace in the process
          /\ pushErr' = pushErr
          /\ step' = step + 1
          /\ pc' = IF step = Len(cmds) THEN "Sleeping" ELSE "Publishing"
       \/ \* subprocess.run raises (the client cannot be launched): line 90
          /\ pushErr' = "oserror"
          /\ step' = step
          /\ pc' = "Sleeping"
    /\ UNCHANGED <<disk, config, commit, idx, attempts, cyc, err, lastSha, killed>>

(***************************************************************************)
(* The loop's end, and the process                                         *)
(***************************************************************************)
\* The sleep is outside the while loop: after it the coroutine returns.
Sleep_returns ==
    /\ pc = "Sleeping"
    /\ pc' = "Stopped"
    /\ UNCHANGED <<disk, config, commit, idx, step, history>>

\* Line 126: asyncio.sleep(INTERVAL), then the next iteration of while True.
Sleep ==
    /\ pc = "Sleeping"
    /\ pc' = "Fetching"
    /\ lastSha' = IF cyc.fetch = "ok" THEN commit.sha ELSE NoFetch
    /\ cyc' = NewCycle
    /\ commit' = NoCommit
    /\ idx' = 0
    /\ step' = 0
    /\ attempts' = <<>>
    /\ gitLog' = <<>>
    /\ pushErr' = "none"
    /\ err' = "none"
    /\ UNCHANGED <<disk, config, killed>>

\* The process is terminated from outside (lines 132-136: KeyboardInterrupt,
\* or a signal).  Its memory is gone; the disk stays.  killed remembers the
\* head of a cycle terminated between its first download and its persist
\* step, and what the state file held when that cycle began, until a later
\* cycle fetches a head.
Kill ==
    /\ pc \notin {"Stopped"}
    /\ pc' = "Stopped"
    /\ killed' = IF pc = "Syncing" /\ attempts # <<>>
                 THEN [sha |-> commit.sha, file |-> cyc.start]
                 ELSE killed
    /\ commit' = NoCommit
    /\ idx' = 0
    /\ step' = 0
    /\ attempts' = <<>>
    /\ gitLog' = <<>>
    /\ pushErr' = "none"
    /\ err' = "none"
    /\ lastSha' = NoFetch
    /\ cyc' = NewCycle
    /\ UNCHANGED <<disk, config>>

\* The process is started again: the module is imported (lines 32-42).
Restart ==
    /\ pc = "Stopped"
    /\ pc' = "Idle"
    /\ AUTO_PUSH' \in BOOLEAN
    /\ UNCHANGED <<disk, commit, idx, step, history>>

Cycle ==
    \/ Start
    \/ FetchOk
    \/ FetchFail
    \/ Classify
    \/ Unchanged
    \/ SyncFile
    \/ Persist
    \/ PushStep
    \/ Sleep

Next == Cycle \/ Kill \/ Restart

Spec == Init /\ [][Next]_vars

\* No external termination; every external call returns or fails, and the
\* sleep ends.
LiveSpec == Init /\ [][Cycle]_vars /\ WF_vars(Cycle)

TypeOK ==
    /\ pc \in {"Idle", "Fetching", "Fetched", "Unchanged", "Syncing",
               "Publishing", "Sleeping", "Stopped", "Crashed"}
    /\ AUTO_PUSH \in BOOLEAN
    /\ COMMIT_FILE \in InitStateFiles \cup Hashes
    /\ \A f \in Filenames : tree[f] \in {Absent, ResolveUrl(UrlBlob), UrlPlain}
    /\ commit \in Commits \cup {NoCommit}
    /\ idx \in 0..(MaxFiles + 1)
    /\ step \in 0..(Len(cmds) + 1)
    /\ Len(attempts) <= MaxFiles
    /\ Len(gitLog) <= Len(cmds)
    /\ pushErr \in {"none", "oserror"}
    /\ err \in {"none", "fetch", "read", "log", "files", "persist"}
    /\ lastSha \in FetchedShas \cup {NoFetch}
    /\ killed \in [sha : FetchedShas, file : InitStateFiles \cup Hashes] \cup {NoKill}

(***************************************************************************)
(* _safe_download alone                                                    *)
(***************************************************************************)
\* The loop of line 111 stands at the one descriptor of a fetched record,
\* whose location is any of UrlInputs: line 114 is about to call
\* _safe_download(f["raw_url"], PROJECT_ROOT / f["filename"]).
DownloadInit ==
    /\ pc = "Syncing"
    /\ AUTO_PUSH = FALSE
    /\ COMMIT_FILE = NoFile
    /\ tree = [f \in Filenames |-> Absent]
    /\ \E u \in UrlInputs :
          commit = [sha |-> <<"a">>,
                    files |-> <<[filename |-> "f1", status |-> "added", raw_url |-> u]>>]
    /\ idx = 1
    /\ step = 0
    /\ attempts = <<>>
    /\ gitLog = <<>>
    /\ pushErr = "none"
    /\ cyc = [fetch |-> "ok", branch |-> "Syncing", writes |-> 0, start |-> NoFile,
              resumed |-> FALSE]
    /\ err = "none"
    /\ lastSha = NoFetch
    /\ killed = NoKill

DownloadSpec == DownloadInit /\ [][SyncFile]_vars

(***************************************************************************)
(* Vocabulary of the properties                                            *)
(***************************************************************************)
\* A descriptor classified added or modified.
AddedOrModified(f) == f.status = "added" \/ f.status = "modified"

\* Positions of the added/modified descriptors of the fetched record.
AddedModifiedIdx == {i \in 1..Len(commit.files) : AddedOrModified(commit.files[i])}

\* Positions for which _safe_download was called in this cycle.
AttemptedIdx == {attempts[k].i : k \in 1..Len(attempts)}

\* Some download of this cycle failed: a call that did not complete, or a
\* descriptor for which the call could not even be made.
SomeDownloadFailed ==
    \/ \E k \in 1..Len(attempts) : attempts[k].res # "ok"
    \/ err = "files"

\* Every added/modified descriptor was downloaded successfully.
AllDownloadsSucceeded ==
    /\ AttemptedIdx = AddedModifiedIdx
    /\ \A k \in 1..Len(attempts) : attempts[k].res = "ok"

\* Every file the cycle downloaded holds what its last descriptor points to.
TreeHoldsFetched ==
    \A i \in AddedModifiedIdx :
        (\A j \in AddedModifiedIdx :
            commit.files[j].filename = commit.files[i].filename => j <= i)
        => tree[commit.files[i].filename] = ResolveUrl(commit.files[i].raw_url)

EndOfCycle == pc = "Sleeping"

(***************************************************************************)
(* C1. Every failure raised inside a cycle (fetch, state-file read, the    *)
(* per-file loop, the persist step, the publisher) is caught and the cycle *)
(* reaches Sleeping; no failure takes the process out of the loop.         *)
(***************************************************************************)
C1_FailureReachesSleeping ==
    /\ pc # "Crashed"
    /\ err # "none" => pc = "Sleeping"
    /\ pushErr # "none" => pc = "Sleeping"

C1_Witness ==
    /\ pc = "Sleeping"
    /\ err = "files"
    /\ Len(attempts) = 2

(***************************************************************************)
(* C2. In a cycle whose commit fetch fails, no download is attempted, the  *)
(* working tree and the state file stay as they were, the publisher is not *)
(* invoked, the cycle is at Sleeping, and the next step of the loop is a   *)
(* new fetch.                                                              *)
(***************************************************************************)
C2_FetchFailureSkipsCycle ==
    /\ [](cyc.fetch = "failed" =>
            /\ pc = "Sleeping"
            /\ cyc.branch = "none"
            /\ attempts = <<>>
            /\ gitLog = <<>>
            /\ cyc.writes = 0
            /\ COMMIT_FILE = cyc.start)
    /\ [][(cyc.fetch = "failed" \/ cyc'.fetch = "failed") =>
            /\ tree' = tree
            /\ COMMIT_FILE' = COMMIT_FILE
            /\ cyc.fetch = "failed" => pc' \in {"Fetching", "Stopped"}]_vars

C2_Witness ==
    /\ pc = "Sleeping"
    /\ cyc.fetch = "failed"
    /\ err = "fetch"
    /\ lastSha \in Hashes

(***************************************************************************)
(* C3. In a Syncing cycle in which the download of one file fails, for any *)
(* reason, every other added/modified file is still attempted and the new  *)
(* hash is written to the state file at the end of the cycle.              *)
(***************************************************************************)
C3_PartialFailureTolerated ==
    (/\ EndOfCycle
     /\ cyc.branch = "Syncing"
     /\ commit.sha \in Hashes
     /\ Cardinality(AddedModifiedIdx) >= 2
     /\ SomeDownloadFailed
     /\ err # "persist") =>
        /\ \A i \in AddedModifiedIdx :
              commit.files[i].raw_url # MissingKey => i \in AttemptedIdx
        /\ cyc.writes = 1
        /\ COMMIT_FILE = commit.sha

(***************************************************************************)
(* C4, as claimed. The hash in the state file is that of a commit whose    *)
(* every added/modified file was downloaded successfully: a cycle that     *)
(* wrote the state file downloaded every such file of its commit.          *)
(***************************************************************************)
C4_StateIsFullyApplied ==
    /\ cyc.writes = 0 => COMMIT_FILE = cyc.start
    /\ cyc.writes > 0 =>
          /\ COMMIT_FILE = commit.sha
          /\ AllDownloadsSucceeded

(***************************************************************************)
(* C4, amended. The state file holds what it held when the cycle began     *)
(* until the cycle's persist step, and from then on the hash of the        *)
(* cycle's commit, for every added/modified file of which a download was   *)
(* attempted (completed or failed inside _safe_download's try); it is      *)
(* written at most once per cycle, in a Syncing cycle.                     *)
(***************************************************************************)
C4_StateIsLastPersisted ==
    /\ cyc.writes = 0 => COMMIT_FILE = cyc.start
    /\ cyc.writes > 0 =>
          /\ cyc.writes = 1
          /\ cyc.branch = "Syncing"
          /\ COMMIT_FILE = commit.sha
          /\ commit.sha \in Hashes
          /\ AttemptedIdx = AddedModifiedIdx
          /\ \A k \in 1..Len(attempts) : attempts[k].res \in {"ok", "failed"}

C4_Witness ==
    /\ EndOfCycle
    /\ cyc.writes = 1
    /\ COMMIT_FILE = <<"b">>
    /\ Len(attempts) = 2
    /\ attempts[1].res = "failed"
    /\ attempts[2].res = "ok"

(***************************************************************************)
(* C5, as claimed. When two consecutive cycles fetch the same head hash,   *)
(* the second one downloads nothing, does not write the state file and     *)
(* does not take the Syncing path.                                         *)
(***************************************************************************)
C5_SameHeadIsIdempotent ==
    (cyc.fetch = "ok" /\ pc # "Fetched" /\ commit.sha \in Hashes /\ lastSha = commit.sha) =>
        /\ cyc.branch # "Syncing"
        /\ attempts = <<>>
        /\ cyc.writes = 0
        /\ COMMIT_FILE = cyc.start

(***************************************************************************)
(* C5, amended. When two consecutive cycles fetch the same head hash and   *)
(* the first one left that hash in the state file (it took the Unchanged   *)
(* path or completed its persist step), the second one downloads nothing,  *)
(* does not write the state file, does not run the publisher and does not  *)
(* take the Syncing path.                                                  *)
(***************************************************************************)
C5_SameHeadPersistedIsIdempotent ==
    (/\ cyc.fetch = "ok"
     /\ pc # "Fetched"
     /\ commit.sha \in Hashes
     /\ lastSha = commit.sha
     /\ cyc.start # NoFile
     /\ strip(cyc.start) = lastSha) =>
        /\ cyc.branch # "Syncing"
        /\ attempts = <<>>
        /\ gitLog = <<>>
        /\ cyc.writes = 0
        /\ COMMIT_FILE = cyc.start

C5_Witness ==
    /\ EndOfCycle
    /\ cyc.branch = "Unchanged"
    /\ lastSha = <<"b">>
    /\ commit.sha = <<"b">>
    /\ COMMIT_FILE = <<"b">>
    /\ commit.files # <<>>

(***************************************************************************)
(* C6. A download is attempted for a descriptor only if its status is      *)
(* added or modified, and only such a descriptor's step changes the        *)
(* working tree: removed and other descriptors trigger no download and     *)
(* alter no local file.                                                    *)
(***************************************************************************)
C6_OnlyAddedModifiedDownloaded ==
    /\ [](\A k \in 1..Len(attempts) :
            /\ attempts[k].i \in 1..Len(commit.files)
            /\ AddedOrModified(commit.files[attempts[k].i])
            /\ attempts[k].dest = commit.files[attempts[k].i].filename)
    /\ [][(tree' # tree \/ Len(attempts') > Len(attempts)) =>
            /\ pc = "Syncing"
            /\ idx \in 1..Len(commit.files)
            /\ AddedOrModified(commit.files[idx])
            /\ \A f \in Filenames :
                  f # commit.files[idx].filename => tree'[f] = tree[f]]_vars

C6_Witness ==
    /\ EndOfCycle
    /\ Len(commit.files) = 2
    /\ commit.files[1].status = "removed"
    /\ commit.files[2].status = "modified"
    /\ tree["f1"] # Absent
    /\ AttemptedIdx = {2}
    /\ cyc.writes = 1

C8_PublisherOnlyAfterSync ==
    (pc = "Publishing" \/ gitLog # <<>> \/ pushErr # "none") =>
        /\ AUTO_PUSH
        /\ cyc.fetch = "ok"
        /\ cyc.branch = "Syncing"
        /\ err = "none"
        /\ idx = Len(commit.files) + 1
        /\ AttemptedIdx = AddedModifiedIdx
        /\ cyc.writes = 1
        /\ COMMIT_FILE = commit.sha

C8_Witness ==
    /\ EndOfCycle
    /\ gitLog = cmds
    /\ Len(attempts) = 2
    /\ attempts[2].res = "failed"

(***************************************************************************)
(* C9. A publisher run hands its commands to the client in the order       *)
(* identity, pull --rebase, add, commit, push, and no step's failure (a    *)
(* non-zero exit or a failure to launch the client) keeps the following    *)
(* steps from being attempted; then the loop is at Sleeping.               *)
(***************************************************************************)
C9_AllPublisherStepsAttempted ==
    /\ Len(gitLog) <= Len(cmds)
    /\ gitLog = SubSeq(cmds, 1, Len(gitLog))
    /\ (gitLog # <<>> /\ pc # "Publishing") => (pc = "Sleeping" /\ gitLog = cmds)

(***************************************************************************)
(* C10. With no external termination and every external call returning or  *)
(* failing, the loop has no terminal state: every cycle reaches Sleeping,  *)
(* Sleeping is followed by Fetching, and Fetching recurs forever.  A cycle *)
(* reaches Sleeping because Fetching recurs and, after the first cycle, is *)
(* entered from Sleeping only.                                             *)
(***************************************************************************)
C10_FetchingRecurs ==
    /\ []<>(pc = "Fetching")
    /\ [][pc = "Sleeping" => pc' = "Fetching"]_vars
    /\ [][(pc' = "Fetching" /\ pc # "Idle") => pc = "Sleeping"]_vars
    /\ [](pc \notin {"Stopped", "Crashed"})

C10_Witness ==
    /\ pc = "Fetching"
    /\ lastSha = <<"b">>
    /\ COMMIT_FILE = <<"b">>
    /\ tree["f1"] # Absent

(***************************************************************************)
(* C11  For a viewer URL github.com/o/r/blob/m/<path> or                   *)
(* github.com/o/r/raw/m/<path>, _safe_download requests                    *)
(* raw.githubusercontent.com/o/r/m/<path>: owner, repository, branch and   *)
(* path exactly as given, also when the path has a segment named blob or   *)
(* raw, with every %2F of the path turned into "/".                        *)
(***************************************************************************)
\* The path with each %2F token replaced by the separator.
SlashesDecoded(path) == [i \in 1..Len(path) |-> IF path[i] = "%2F" THEN "/" ELSE path[i]]

DirectUrl(path) ==
    <<"https:", "/", "/", "raw.githubusercontent.com", "/", "o", "/", "r", "/", "m", "/">>
        \o SlashesDecoded(path)

C11_ViewerUrlRewritten ==
    \A n \in 1..Len(attempts) :
        \A k \in ViewerKinds, p \in Paths :
            (attempts[n].res = "ok"
                /\ commit.files[attempts[n].i].raw_url = ViewerUrl(k, p, <<>>))
                => attempts[n].url = DirectUrl(p)

(***************************************************************************)
(* C12  A location that has no /blob/ and no /raw/ segment is requested    *)
(* exactly as given.                                                       *)
(***************************************************************************)
HasViewerSegment(u) ==
    \E i \in 1..(Len(u) - 2) :
        u[i] = "/" /\ u[i + 1] \in ViewerKinds /\ u[i + 2] = "/"

C12_OtherUrlVerbatim ==
    \A n \in 1..Len(attempts) :
        LET raw_url == commit.files[attempts[n].i].raw_url IN
        (attempts[n].res = "ok" /\ raw_url \in UrlInputs /\ ~HasViewerSegment(raw_url))
            => attempts[n].url = raw_url

(***************************************************************************)
(* C13  State round trip: a hash written to the state file by a Syncing    *)
(* cycle is read back as the same hash, with no whitespace around it, and  *)
(* a following cycle that fetches that head finds it equal and takes the   *)
(* Unchanged path.                                                         *)
(***************************************************************************)
NoSurroundingWhitespace(s) ==
    s # <<>> /\ s[1] \notin Whitespace /\ s[Len(s)] \notin Whitespace

C13_StateRoundTrip ==
    /\ cyc.writes > 0 =>
          /\ ReadPrev = commit.sha
          /\ NoSurroundingWhitespace(ReadPrev)
    /\ (cyc.branch # "none" /\ commit.sha \in Hashes /\ cyc.start = commit.sha) =>
          cyc.branch = "Unchanged"

\* A cycle has compared the head with a hash that only an earlier Syncing
\* cycle can have written, and the cycle before fetched that same head.
C13_Witness ==
    /\ cyc.branch = "Unchanged"
    /\ cyc.start = commit.sha
    /\ cyc.start \notin InitStateFiles
    /\ lastSha = commit.sha

(***************************************************************************)
(* C14  When the process is terminated in a Syncing cycle after some       *)
(* downloads and before the persist step, the state file still holds what  *)
(* the last cycle that reached the persist step left in it; and the next   *)
(* cycle after the restart that fetches that same head, with the state     *)
(* file readable and writable, attempts every added or modified file of    *)
(* the commit again and then persists the hash.                            *)
(***************************************************************************)
C14_KilledSyncIsRedone ==
    /\ killed # NoKill => COMMIT_FILE = killed.file
    /\ (EndOfCycle /\ cyc.resumed /\ commit.sha \in Hashes
            /\ err \notin {"read", "persist"}) =>
          /\ cyc.branch = "Syncing"
          /\ AttemptedIdx = AddedModifiedIdx
          /\ cyc.writes = 1
          /\ COMMIT_FILE = commit.sha

(***************************************************************************)
(* C15  The state file is written at most once per cycle, only in a        *)
(* Syncing cycle, only after the download attempt of the last changed file *)
(* of the cycle is over, and only with the hash fetched in that cycle; the *)
(* previous hash is read after the fetch and before any download.          *)
(***************************************************************************)
C15_StateWrittenOncePerCycle ==
    /\ [][(COMMIT_FILE' # COMMIT_FILE \/ cyc'.writes > cyc.writes) =>
            /\ cyc.writes = 0
            /\ cyc'.writes = 1
            /\ cyc.fetch = "ok"
            /\ cyc.branch = "Syncing"
            /\ idx > Len(commit.files)
            /\ AttemptedIdx = AddedModifiedIdx
            /\ COMMIT_FILE' = commit.sha
            /\ commit' = commit /\ attempts' = attempts]_vars
    /\ [][cyc.writes > 0 => (attempts' = attempts \/ attempts' = <<>>)]_vars
    /\ [][(cyc'.branch # cyc.branch /\ cyc'.branch # "none") =>
            /\ pc = "Fetched"
            /\ cyc.fetch = "ok"
            /\ commit' = commit
            /\ attempts = <<>> /\ attempts' = <<>>]_vars
    /\ [](attempts # <<>> => cyc.branch = "Syncing")

\* The hash was written in a cycle that attempted more than one file.
C15_Witness ==
    /\ cyc.writes = 1
    /\ COMMIT_FILE = commit.sha
    /\ COMMIT_FILE # cyc.start
    /\ Len(attempts) >= 2

(***************************************************************************)
(* C16  A fetched record without hash never changes the state file and     *)
(* never starts the publisher.  When a state file exists (and can be       *)
(* read), the added and modified files are downloaded all the same, the    *)
(* persist step fails and the cycle ends in Sleeping with the old hash;    *)
(* when none exists, the cycle takes the equal-hash branch, fails there    *)
(* and downloads nothing.                                                  *)
(***************************************************************************)
C16_NoHashNeverPersists ==
    (cyc.fetch = "ok" /\ commit.sha = None) =>
        /\ COMMIT_FILE = cyc.start
        /\ cyc.writes = 0
        /\ pc # "Publishing" /\ gitLog = <<>>
        /\ (cyc.start # NoFile /\ EndOfCycle /\ err # "read") =>
              /\ cyc.branch = "Syncing"
              /\ AttemptedIdx = AddedModifiedIdx
              /\ err # "none"
              /\ idx > Len(commit.files) => err = "persist"
        /\ (cyc.start = NoFile /\ pc # "Fetched") =>
              /\ cyc.branch = "Unchanged"
              /\ attempts = <<>>
              /\ EndOfCycle => err = "log"

(***************************************************************************)
(* C17  On a first run, with no state file, a fetched head with a hash is  *)
(* treated as changed: the cycle takes the Syncing path, attempts every    *)
(* added or modified file of the head commit and (the file being           *)
(* writable) creates the state file holding that hash.                     *)
(***************************************************************************)
C17_FirstRunSyncs ==
    (cyc.fetch = "ok" /\ commit.sha \in Hashes /\ cyc.start = NoFile) =>
        /\ pc # "Fetched" => cyc.branch = "Syncing"
        /\ (EndOfCycle /\ err # "persist") =>
              /\ AttemptedIdx = AddedModifiedIdx
              /\ cyc.writes = 1
              /\ COMMIT_FILE = commit.sha

(***************************************************************************)
(* C18  A Syncing cycle attempts downloads only for files that the head    *)
(* record fetched in that cycle lists.  When the head is more than one     *)
(* commit past the persisted hash, the files changed only by the commits   *)
(* in between are not downloaded, and the hash that is persisted is the    *)
(* head's all the same.                                                    *)
(***************************************************************************)
\* Whatever the commits between the persisted hash and the head changed, the
\* files changed by them alone are among those the head does not list.
NotInHead == Filenames \ Listed(commit)

====
